---- MODULE Spec2Model ----
(***************************************************************************)
(* HoloLang: multilingual text segmentation (app/services/segmentation.py) *)
(* the TTS pipeline's timeline merge (app/services/pipeline.py) with its   *)
(* HTTP handler (app/api/routes.py), the aligner's leading-gap backfill    *)
(* (app/clients/whisperx.py) and the lazy load of the language model.      *)
(*                                                                         *)
(* A text is a sequence of one-character strings.  Each character of the   *)
(* model stands for a Unicode class the code distinguishes:                *)
(*   "a" Latin letter        "Z" Han ideograph      "k" Hiragana/Katakana  *)
(*   "." full-stop delimiter "," comma delimiter    ";" other punctuation  *)
(*   " " space               "\n" newline           "1" digit              *)
(*   "$" any other symbol                                                  *)
(* Positions are Python offsets (0-based, half-open ranges).               *)
(***************************************************************************)
EXTENDS Integers, Sequences, FiniteSets, TLC

\* ---------------------------------------------------------------- bounds
MaxLen == 3
MaxCalls == 2
MaxFrames == 1
MaxRows == 1
MaxAlignT == 1
MaxThreads == 3

\* ------------------------------------------------------------ characters
Chars == {"a", "Z", "k", ".", ",", ";", " ", "\n", "1", "$"}
SegChars == {"a", "Z", "k", ".", ";", " ", "1"}

S_HAN(ch) == ch = "Z"
HIRA_OR_KATA(ch) == ch = "k"
S_LATIN(ch) == ch = "a"
S_NUM(ch) == ch = "1"
S_PUNC(ch) == ch \in {".", ",", ";"}
isspace(ch) == ch \in {" ", "\n"}
\* mutant: the comma class is missing from the pattern
IsDelimiter_full_stops_only(ch) == ch = "."
\* the character class of the split pattern [。！？.!?，、,]
IsDelimiter(ch) == ch \in {".", ","}

\* text[s:e]
Slice(text, s, e) == SubSeq(text, s + 1, e)

RECURSIVE lstrip(_)
lstrip(s) ==
    IF s # <<>> /\ isspace(Head(s)) THEN lstrip(Tail(s)) ELSE s

RECURSIVE rstrip(_)
rstrip(s) ==
    IF s # <<>> /\ isspace(s[Len(s)]) THEN rstrip(SubSeq(s, 1, Len(s) - 1)) ELSE s

strip(s) == rstrip(lstrip(s))

\* text.replace('\n', ' ')
replace_newlines(s) == [i \in 1..Len(s) |-> IF s[i] = "\n" THEN " " ELSE s[i]]

_contains_kana(s) == \E i \in 1..Len(s) : HIRA_OR_KATA(s[i])
contains_han(s) == \E i \in 1..Len(s) : S_HAN(s[i])
contains_latin(s) == \E i \in 1..Len(s) : S_LATIN(s[i])
\* mutant: any() in place of all()
all_punctuation_any(s) == \E i \in 1..Len(s) : S_PUNC(s[i])
all_punctuation(s) == \A i \in 1..Len(s) : S_PUNC(s[i])
\* mutant: the emptiness test without strip()
is_blank_unstripped(s) == s = <<>>
is_blank(s) == strip(s) = <<>>

\* ------------------------------------------------------------- rationals
\* A confidence is a rational <<numerator, denominator>> in lowest terms.
RECURSIVE GCD(_, _)
GCD(a, b) == IF b = 0 THEN a ELSE GCD(b, a % b)

Rat(n, d) == IF n = 0 THEN <<0, 1>> ELSE <<n \div GCD(n, d), d \div GCD(n, d)>>
RatAdd(x, y) == Rat(x[1] * y[2] + y[1] * x[2], x[2] * y[2])
RatScale(x, k) == Rat(x[1] * k, x[2])
RatDiv(x, k) == Rat(x[1], x[2] * k)
RatLess(x, y) == x[1] * y[2] < y[1] * x[2]

Langs == <<"zh", "ja", "en">>
LangSet == {"zh", "ja", "en"}
ZeroScores == [l \in LangSet |-> <<0, 1>>]
OneHot(lang) == [l \in LangSet |-> IF l = lang THEN <<1, 1>> ELSE <<0, 1>>]

\* max(s.items(), key=lambda kv: kv[1])[0]: the first maximal entry in the
\* dict's insertion order zh, ja, en
argmax_lang(s) ==
    LET best(i) == \A j \in 1..3 : /\ ~RatLess(s[Langs[i]], s[Langs[j]])
                                   /\ (j < i => RatLess(s[Langs[j]], s[Langs[i]]))
    IN Langs[CHOOSE i \in 1..3 : best(i)]

\* ------------------------------------------------- fastText language model
None == "None"
Loaded == "lid.176.bin"

\* What model.predict(text, k=3) may return: up to three (label, confidence)
\* pairs, confidences in quarters.  "__label__de" stands for any of the 173
\* labels outside the project's three languages.
Predictions ==
    { << <<"__label__zh", <<3, 4>> >>, <<"__label__ja", <<1, 4>> >> >>,
      << <<"__label__ja", <<1, 2>> >>, <<"__label__de", <<1, 4>> >>, <<"__label__en", <<1, 4>> >> >>,
      << <<"__label__en", <<1, 1>> >> >>,
      << <<"__label__de", <<1, 2>> >>, <<"__label__zh", <<1, 4>> >>, <<"__label__en", <<1, 4>> >> >> }

\* the global after a call of _get_language_model, which is also the handle
\* the call returns
_get_language_model(g) == IF g = None THEN Loaded ELSE g

\* label.replace('__label__', '') followed by lang_map.get(lang, 'en')
_fasttext_to_project_lang(label) ==
    CASE label = "__label__ja" -> "ja"
      [] label = "__label__zh" -> "zh"
      [] label = "__label__en" -> "en"
      [] OTHER -> "en"

RECURSIVE accumulate_scores(_, _)
accumulate_scores(preds, scores) ==
    IF preds = <<>> THEN scores
    ELSE LET lang_code == _fasttext_to_project_lang(Head(preds)[1])
         IN accumulate_scores(Tail(preds),
                [scores EXCEPT ![lang_code] = RatAdd(@, Head(preds)[2])])

\* the string handed to model.predict
ft_input(text) == strip(replace_newlines(text))

\* mutant: the call that finds the model not yet loaded loads it and answers
\* with the initial all-zero scores
_scores_fasttext_cold_start(text, g, ft) ==
    IF ft_input(text) = <<>>
    THEN [scores |-> [l \in LangSet |-> <<1, 3>>], model |-> g]
    ELSE [scores |-> IF g = None THEN ZeroScores
                     ELSE accumulate_scores(ft[ft_input(text)], ZeroScores),
          model |-> _get_language_model(g)]

\* g is the value of _FASTTEXT_MODEL at the call, ft the predictions of the
\* model file.  Returns the scores and the value of the global afterwards.
_scores_fasttext(text, g, ft) ==
    IF ft_input(text) = <<>>
    THEN [scores |-> [l \in LangSet |-> <<1, 3>>], model |-> g]
    ELSE [scores |-> accumulate_scores(ft[ft_input(text)], ZeroScores),
          model |-> _get_language_model(g)]

\* --------------------------------------------------- punctuation splitting
RECURSIVE match_end(_, _)
match_end(text, j) ==
    IF j < Len(text) /\ IsDelimiter(text[j + 1]) THEN match_end(text, j + 1) ELSE j

\* pattern.finditer(text): the maximal runs of delimiters, left to right
RECURSIVE finditer(_, _)
finditer(text, pos) ==
    IF pos >= Len(text) THEN <<>>
    ELSE IF IsDelimiter(text[pos + 1])
         THEN LET e == match_end(text, pos) IN <<<<pos, e>>>> \o finditer(text, e)
         ELSE finditer(text, pos + 1)

RECURSIVE split_loop(_, _, _)
split_loop(matches, start, segments) ==
    IF matches = <<>> THEN [segments |-> segments, start |-> start]
    ELSE LET token_start == Head(matches)[1]
             token_end == Head(matches)[2]
             before == IF token_start > start THEN <<<<start, token_start>>>> ELSE <<>>
         IN split_loop(Tail(matches), token_end,
                       segments \o before \o <<<<token_start, token_end>>>>)

\* the text left after the last delimiter; r = [segments, start]
split_rest(r, text) ==
    IF r.start < Len(text)
    THEN r.segments \o <<<<r.start, Len(text)>>>>
    ELSE r.segments

_split_by_punctuation(text) ==
    IF text = <<>> THEN <<>>
    ELSE split_rest(split_loop(finditer(text, 0), 0, <<>>), text)

\* ---------------------------------------------------------- script runs
_script_bucket(ch) ==
    IF HIRA_OR_KATA(ch) THEN "JPN_KANA"
    ELSE IF S_HAN(ch) THEN "HAN"
    ELSE IF S_LATIN(ch) THEN "LATIN"
    ELSE IF S_NUM(ch) \/ S_PUNC(ch) \/ isspace(ch) THEN "NEUTRAL"
    ELSE "OTHER"

\* one iteration of the loop of _coarse_segments; st = [segs, start, last],
\* i is the Python index of ch
coarse_step(st, i, ch) ==
    LET b == _script_bucket(ch)
        eff == IF b = "NEUTRAL" THEN st.last ELSE b
    IN IF eff # st.last
       THEN [segs |-> Append(st.segs, <<st.start, i>>), start |-> i, last |-> eff]
       ELSE st

RECURSIVE coarse_loop(_, _, _)
coarse_loop(text, i, st) ==
    IF i >= Len(text) THEN st
    ELSE coarse_loop(text, i + 1, coarse_step(st, i, text[i + 1]))

\* segs.append((start, len(text)))
coarse_close(text, st) == Append(st.segs, <<st.start, Len(text)>>)

\* mutant: the run starts without the bucket of the first character
_coarse_segments_no_first_bucket(text) ==
    IF text = <<>> THEN <<>>
    ELSE coarse_close(text, coarse_loop(text, 0,
            [segs |-> <<>>, start |-> 0, last |-> "NEUTRAL"]))

_coarse_segments(text) ==
    IF text = <<>> THEN <<>>
    ELSE coarse_close(text, coarse_loop(text, 0,
            [segs |-> <<>>, start |-> 0, last |-> _script_bucket(text[1])]))

\* --------------------------------------------------------------- spans
_Span(start, end, text, lang, scores) ==
    [start |-> start, end |-> end, text |-> text, lang |-> lang, scores |-> scores]

MAX_LEN == 200

\* mutant: the merged span is stored but the `continue` is missing, so the
\* incoming span is appended as well
merge_step_no_continue(out, sp, max_len) ==
    LET a == out[Len(out)] IN
    IF /\ out # <<>>
       /\ a.lang = sp.lang
       /\ a.end = sp.start
       /\ Len(a.text) + Len(sp.text) <= max_len
    THEN Append([out EXCEPT ![Len(out)] =
                    _Span(a.start, sp.end, a.text \o sp.text, sp.lang,
                          [k \in LangSet |->
                             RatDiv(RatAdd(RatScale(a.scores[k], a.end - a.start),
                                           RatScale(sp.scores[k], sp.end - sp.start)),
                                    sp.end - a.start)])], sp)
    ELSE Append(out, sp)

\* mutant: the merged span takes the language of its blended scores
merge_step_relabel(out, sp, max_len) ==
    LET a == out[Len(out)] IN
    IF /\ out # <<>>
       /\ a.lang = sp.lang
       /\ a.end = sp.start
       /\ Len(a.text) + Len(sp.text) <= max_len
    THEN [out EXCEPT ![Len(out)] =
            _Span(a.start, sp.end, a.text \o sp.text,
                  argmax_lang([k \in LangSet |->
                      RatDiv(RatAdd(RatScale(a.scores[k], a.end - a.start),
                                    RatScale(sp.scores[k], sp.end - sp.start)),
                             IF sp.end - a.start # 0 THEN sp.end - a.start ELSE 1)]),
                  [k \in LangSet |->
                      RatDiv(RatAdd(RatScale(a.scores[k], a.end - a.start),
                                    RatScale(sp.scores[k], sp.end - sp.start)),
                             IF sp.end - a.start # 0 THEN sp.end - a.start ELSE 1)])]
    ELSE Append(out, sp)

\* mutant: the length limit is not consulted
merge_step_no_cap(out, sp, max_len) ==
    LET a == out[Len(out)] IN
    IF /\ out # <<>>
       /\ a.lang = sp.lang
       /\ a.end = sp.start
    THEN [out EXCEPT ![Len(out)] =
            _Span(a.start, sp.end, a.text \o sp.text, sp.lang,
                  [k \in LangSet |->
                      RatDiv(RatAdd(RatScale(a.scores[k], a.end - a.start),
                                    RatScale(sp.scores[k], sp.end - sp.start)),
                             IF sp.end - a.start # 0 THEN sp.end - a.start ELSE 1)])]
    ELSE Append(out, sp)

\* mutant: the scores are averaged without their lengths
merge_step_unweighted(out, sp, max_len) ==
    LET a == out[Len(out)] IN
    IF /\ out # <<>>
       /\ a.lang = sp.lang
       /\ a.end = sp.start
       /\ Len(a.text) + Len(sp.text) <= max_len
    THEN [out EXCEPT ![Len(out)] =
            _Span(a.start, sp.end, a.text \o sp.text, sp.lang,
                  [k \in LangSet |->
                      RatDiv(RatAdd(a.scores[k], sp.scores[k]), 2)])]
    ELSE Append(out, sp)

\* one iteration of the loop of _merge_adjacent
merge_step(out, sp, max_len) ==
    LET a == out[Len(out)] IN
    IF /\ out # <<>>
       /\ a.lang = sp.lang
       /\ a.end = sp.start
       /\ Len(a.text) + Len(sp.text) <= max_len
    THEN LET L1 == a.end - a.start
             L2 == sp.end - sp.start
             total == IF L1 + L2 # 0 THEN L1 + L2 ELSE 1
             mix == [k \in LangSet |->
                       RatDiv(RatAdd(RatScale(a.scores[k], L1),
                                     RatScale(sp.scores[k], L2)), total)]
         IN [out EXCEPT ![Len(out)] =
                _Span(a.start, sp.end, a.text \o sp.text, sp.lang, mix)]
    ELSE Append(out, sp)

RECURSIVE merge_loop(_, _, _)
merge_loop(spans, out, max_len) ==
    IF spans = <<>> THEN out
    ELSE merge_loop(Tail(spans), merge_step(out, Head(spans), max_len), max_len)

_merge_adjacent(spans, max_len) == merge_loop(spans, <<>>, max_len)

\* ----------------------------------------------------- adhesion correction
\* text[max(0, start - 8) : min(len(text), end + 8)]
adhesion_window(sp, text) ==
    LET L == IF sp.start - 8 > 0 THEN sp.start - 8 ELSE 0
        R == IF sp.end + 8 < Len(text) THEN sp.end + 8 ELSE Len(text)
    IN Slice(text, L, R)

\* st = [fixed, model]; i is the Python index; r the rescoring
set_ja(st, i, r) ==
    [fixed |-> [st.fixed EXCEPT ![i + 1] =
                  _Span(@.start, @.end, @.text, "ja", r.scores)],
     model |-> r.model]

\* fixed[i] = _Span(sp.start, sp.end, sp.text, "ja", _scores_fasttext(text[L:R]))
relabel_ja(st, i, text, ft) ==
    set_ja(st, i, _scores_fasttext(adhesion_window(st.fixed[i + 1], text), st.model, ft))

\* mutant: the language of the middle span is not tested
sandwich_step_any_lang(st, i, text, max_zh_len, ft) ==
    LET mid == st.fixed[i + 1] IN
    IF /\ (mid.end - mid.start) <= max_zh_len
       /\ st.fixed[i].lang = "ja"
       /\ st.fixed[i + 2].lang = "ja"
    THEN relabel_ja(st, i, text, ft)
    ELSE st

\* mutant: the neighbours have to contain Kana
sandwich_step_needs_kana(st, i, text, max_zh_len, ft) ==
    LET mid == st.fixed[i + 1] IN
    IF /\ mid.lang = "zh"
       /\ (mid.end - mid.start) <= max_zh_len
       /\ st.fixed[i].lang = "ja" /\ _contains_kana(st.fixed[i].text)
       /\ st.fixed[i + 2].lang = "ja" /\ _contains_kana(st.fixed[i + 2].text)
    THEN relabel_ja(st, i, text, ft)
    ELSE st

\* pass 1, one iteration: ja-zh-ja sandwich
sandwich_step(st, i, text, max_zh_len, ft) ==
    LET mid == st.fixed[i + 1] IN
    IF /\ mid.lang = "zh"
       /\ (mid.end - mid.start) <= max_zh_len
       /\ st.fixed[i].lang = "ja"
       /\ st.fixed[i + 2].lang = "ja"
    THEN relabel_ja(st, i, text, ft)
    ELSE st

\* mutant: any ja neighbour pulls, with Kana or without
kana_pull_step_any_ja(st, i, text, max_zh_len, ft) ==
    LET sp == st.fixed[i + 1]
        n == Len(st.fixed)
        left_ok == i > 0 /\ st.fixed[i].lang = "ja"
        right_ok == i < n - 1 /\ st.fixed[i + 2].lang = "ja"
    IN IF sp.lang # "zh" \/ (sp.end - sp.start) > max_zh_len THEN st
       ELSE IF left_ok \/ right_ok THEN relabel_ja(st, i, text, ft)
       ELSE st

\* pass 2, one iteration: kana pull
kana_pull_step(st, i, text, max_zh_len, ft) ==
    LET sp == st.fixed[i + 1]
        n == Len(st.fixed)
        left_ok == /\ i > 0
                   /\ st.fixed[i].lang = "ja"
                   /\ _contains_kana(st.fixed[i].text)
        right_ok == /\ i < n - 1
                    /\ st.fixed[i + 2].lang = "ja"
                    /\ _contains_kana(st.fixed[i + 2].text)
    IN IF sp.lang # "zh" \/ (sp.end - sp.start) > max_zh_len THEN st
       ELSE IF left_ok \/ right_ok THEN relabel_ja(st, i, text, ft)
       ELSE st

\* for i in range(1, n - 1)
RECURSIVE sandwich_loop(_, _, _, _, _)
sandwich_loop(st, i, text, max_zh_len, ft) ==
    IF i >= Len(st.fixed) - 1 THEN st
    ELSE sandwich_loop(sandwich_step(st, i, text, max_zh_len, ft),
                       i + 1, text, max_zh_len, ft)

\* for i, sp in enumerate(fixed)
RECURSIVE kana_pull_loop(_, _, _, _, _)
kana_pull_loop(st, i, text, max_zh_len, ft) ==
    IF i >= Len(st.fixed) THEN st
    ELSE kana_pull_loop(kana_pull_step(st, i, text, max_zh_len, ft),
                        i + 1, text, max_zh_len, ft)

\* if kana_pull: pass 2
kana_pull_pass(p1, text, max_zh_len, kana_pull, ft) ==
    IF kana_pull THEN kana_pull_loop(p1, 0, text, max_zh_len, ft) ELSE p1

\* returns [fixed, model]
_smooth_ja_adhesion(spans, text, max_zh_len, kana_pull, g, ft) ==
    IF spans = <<>> THEN [fixed |-> spans, model |-> g]
    ELSE kana_pull_pass(
            sandwich_loop([fixed |-> spans, model |-> g], 1, text, max_zh_len, ft),
            text, max_zh_len, kana_pull, ft)

\* ------------------------------------------------------------ segmentation
MAX_ZH_LEN == 6

\* mutant: the text is appended but the end is not extended
attach_punctuation_keep_end(all_spans, chunk_text, chunk_end) ==
    [all_spans EXCEPT ![Len(all_spans)] = [@ EXCEPT !.text = @ \o chunk_text]]

\* mutant: the punctuation becomes a span of its own, in the language of the
\* preceding span
attach_punctuation_own_span(all_spans, chunk_text, chunk_end) ==
    LET last == all_spans[Len(all_spans)]
    IN Append(all_spans, _Span(chunk_end - Len(chunk_text), chunk_end, chunk_text,
                               last.lang, last.scores))

\* all_spans[-1].text += chunk_text; all_spans[-1].end = chunk_end
attach_punctuation(all_spans, chunk_text, chunk_end) ==
    [all_spans EXCEPT ![Len(all_spans)] =
        [@ EXCEPT !.text = @ \o chunk_text, !.end = chunk_end]]

\* lang = max(s.items(), key=...)[0]; scores = s
from_scores(r) ==
    [lang |-> argmax_lang(r.scores), scores |-> r.scores, model |-> r.model]

\* mutant: Han is tested before Kana
detect_chunk_han_first(chunk_text, g, ft) ==
    IF contains_han(chunk_text)
    THEN [lang |-> "zh", scores |-> OneHot("zh"), model |-> g]
    ELSE IF _contains_kana(chunk_text)
    THEN [lang |-> "ja", scores |-> OneHot("ja"), model |-> g]
    ELSE IF contains_latin(chunk_text)
    THEN [lang |-> "en", scores |-> OneHot("en"), model |-> g]
    ELSE from_scores(_scores_fasttext(chunk_text, g, ft))

\* heuristic detection, Kana > Han > Latin > fastText
detect_chunk(chunk_text, g, ft) ==
    IF _contains_kana(chunk_text)
    THEN [lang |-> "ja", scores |-> OneHot("ja"), model |-> g]
    ELSE IF contains_han(chunk_text)
    THEN [lang |-> "zh", scores |-> OneHot("zh"), model |-> g]
    ELSE IF contains_latin(chunk_text)
    THEN [lang |-> "en", scores |-> OneHot("en"), model |-> g]
    ELSE from_scores(_scores_fasttext(chunk_text, g, ft))

\* all_spans.append(_Span(abs_start, abs_end, chunk_text, lang, scores))
append_span(st, chunk, chunk_text, d) ==
    [all_spans |-> Append(st.all_spans,
                          _Span(chunk[1], chunk[2], chunk_text, d.lang, d.scores)),
     model |-> d.model]

\* the body of the chunk loop, given chunk_text = text[chunk_start:chunk_end]
chunk_text_step(st, chunk, chunk_text, ft) ==
    IF is_blank(chunk_text) THEN st
    ELSE IF all_punctuation(chunk_text)
    THEN IF st.all_spans # <<>>
         THEN [st EXCEPT !.all_spans = attach_punctuation(@, chunk_text, chunk[2])]
         ELSE st
    ELSE append_span(st, chunk, chunk_text, detect_chunk(chunk_text, st.model, ft))

\* one iteration of the chunk loop of _segment_text_pure; st = [all_spans, model]
chunk_step(st, text, chunk, ft) ==
    chunk_text_step(st, chunk, Slice(text, chunk[1], chunk[2]), ft)

RECURSIVE chunk_loop(_, _, _, _)
chunk_loop(st, text, chunks, ft) ==
    IF chunks = <<>> THEN st
    ELSE chunk_loop(chunk_step(st, text, Head(chunks), ft), text, Tail(chunks), ft)

\* merged_spans = _merge_adjacent(all_spans)
first_merge(st) ==
    [spans |-> _merge_adjacent(st.all_spans, MAX_LEN), model |-> st.model]

\* _segment_text_pure up to and including the first global merge
spans_before_adhesion(text, g, ft) ==
    first_merge(chunk_loop([all_spans |-> <<>>, model |-> g], text,
                           _split_by_punctuation(text), ft))

\* return _merge_adjacent(final_spans)
final_merge(final) ==
    [spans |-> _merge_adjacent(final.fixed, MAX_LEN), model |-> final.model]

\* steps 4 and 5 of _segment_text_pure
adhesion_and_merge(merged, text, max_zh_len, kana_pull, ft) ==
    final_merge(_smooth_ja_adhesion(merged.spans, text, max_zh_len, kana_pull,
                                    merged.model, ft))

\* returns [spans, model]
_segment_text_pure(text, max_zh_len, kana_pull, g, ft) ==
    adhesion_and_merge(spans_before_adhesion(text, g, ft), text, max_zh_len, kana_pull, ft)

SegmentItem(sp) ==
    [text |-> sp.text, langcode |-> sp.lang, start |-> sp.start, end |-> sp.end]

\* mutant: the fixed priority order of the older segment_api
contain_lang_fixed_order(segments) ==
    SelectSeq(<<"en", "zh", "ja">>,
              LAMBDA l : \E i \in 1..Len(segments) : segments[i].langcode = l)

\* the languages of the segments, duplicates removed, first occurrence first
RECURSIVE collect_langs(_, _)
collect_langs(segments, contain_lang) ==
    IF segments = <<>> THEN contain_lang
    ELSE LET l == Head(segments).langcode
         IN collect_langs(Tail(segments),
                IF \E i \in 1..Len(contain_lang) : contain_lang[i] = l
                THEN contain_lang ELSE Append(contain_lang, l))

contain_lang_of(segments) == collect_langs(segments, <<>>)

TextSegmentsOut(segments) ==
    [segments |-> segments, contain_lang |-> contain_lang_of(segments)]

\* the output items of the spans that passed the blank filter
non_blank_items(spans) ==
    [i \in 1..Len(spans) |-> SegmentItem(spans[i])]

\* filter out blank spans, convert, collect the languages
to_output(r) ==
    [out |-> TextSegmentsOut(
                non_blank_items(SelectSeq(r.spans, LAMBDA s : ~is_blank(s.text)))),
     model |-> r.model]

\* returns [out, model]: the TextSegmentsOut and the global afterwards
segment_text(text, g, ft) ==
    to_output(_segment_text_pure(text, MAX_ZH_LEN, TRUE, g, ft))

\* the chunk reaches the fastText branch of the detection
needs_model(chunk_text) ==
    /\ ~is_blank(chunk_text)
    /\ ~all_punctuation(chunk_text)
    /\ ~_contains_kana(chunk_text)
    /\ ~contains_han(chunk_text)
    /\ ~contains_latin(chunk_text)

queries_of(chunks, text) ==
    { ft_input(Slice(text, chunks[i][1], chunks[i][2])) :
        i \in { j \in 1..Len(chunks) :
                  needs_model(Slice(text, chunks[j][1], chunks[j][2])) } }

\* the strings segment_text hands to the model while it builds the spans
chunk_queries(text) == queries_of(_split_by_punctuation(text), text)

window_query(sp, text) == ft_input(adhesion_window(sp, text))

any_answers(spans, text) ==
    [q \in {window_query(spans[i], text) : i \in 1..Len(spans)} |->
        CHOOSE p \in Predictions : TRUE]

relabelled_windows(spans, fixed, text) ==
    { window_query(spans[i], text) :
        i \in { j \in 1..Len(spans) : fixed[j].lang # spans[j].lang } }

\* the strings the adhesion correction hands to the model: the windows of the
\* spans it relabels (which spans these are does not depend on the answers)
adhesion_queries(spans, text, max_zh_len, kana_pull) ==
    relabelled_windows(spans,
        _smooth_ja_adhesion(spans, text, max_zh_len, kana_pull, None,
                            any_answers(spans, text)).fixed,
        text)

\* ------------------------------------------------------------------ audio
\* A WAV file is its (nchannels, sampwidth, framerate) and its frame count.
\* Frame rates are in units of 8 kHz (2 = 16 kHz, 3 = 24 kHz); times are in
\* ticks of 1/TicksPerSecond s, so that every duration is an integer.
FrameRates == {2, 3}
TicksPerSecond == 2 * 3
WavParams == {<<1, 2, 2>>, <<1, 2, 3>>, <<2, 2, 2>>, <<1, 1, 2>>}
Wav(params, nframes) == [params |-> params, nframes |-> nframes]
TtsWavs == {Wav(p, n) : p \in WavParams, n \in 0..MaxFrames}

\* returns (params, frames, dur); a block of frames keeps the parameters of
\* the file it was read from
read_wav_params_and_frames(wav_bytes) ==
    LET params == wav_bytes.params
        nframes == wav_bytes.nframes
    IN [params |-> params,
        frames |-> [nframes |-> nframes, params |-> params],
        dur |-> (nframes * TicksPerSecond) \div (IF params[3] # 0 THEN params[3] ELSE 1)]

\* soundfile read, channel mix, torchaudio Resample (ceil(n * new / orig)
\* frames), always written as PCM_16
resample_wav_bytes(wav_bytes, target_sr, target_channels, target_width) ==
    LET src_ch == wav_bytes.params[1]
        src_sr == wav_bytes.params[3]
        ch == IF src_ch # target_channels
              THEN (IF target_channels = 1 THEN 1
                    ELSE IF target_channels = 2 THEN 2 * src_ch
                    ELSE src_ch)
              ELSE src_ch
        n == IF src_sr # target_sr
             THEN (wav_bytes.nframes * target_sr + src_sr - 1) \div src_sr
             ELSE wav_bytes.nframes
    IN Wav(<<ch, 2, target_sr>>, n)

RECURSIVE total_bytes(_)
total_bytes(frames_list) ==
    IF frames_list = <<>> THEN 0
    ELSE LET f == Head(frames_list)
         IN f.nframes * f.params[1] * f.params[2] + total_bytes(Tail(frames_list))

\* with silence_sec_between = 0.0 no silence is written
concat_wav_frames(frames_list, params) ==
    Wav(params, total_bytes(frames_list) \div (params[1] * params[2]))

\* --------------------------------------------------------------- pipeline
\* params_ref before the first segment
NoParams == <<>>
\* merged_audio = b""
EmptyAudio == [params |-> NoParams, nframes |-> 0]
NoOutput == [audio |-> EmptyAudio, chars_time |-> <<>>, pending |-> TRUE]

\* after resampling: re-read, compare again
resampled_audio(params_ref, resampled, r2) ==
    [raised |-> r2.params # params_ref, params_ref |-> params_ref,
     wav |-> resampled, frames |-> r2.frames, seg_duration |-> r2.dur]

reread(params_ref, resampled) ==
    resampled_audio(params_ref, resampled, read_wav_params_and_frames(resampled))

\* mutant: a segment whose parameters differ is taken as it is
checked_audio_no_resample(params_ref, seg_wav_bytes, r1) ==
    [raised |-> FALSE,
     params_ref |-> IF params_ref = NoParams THEN r1.params ELSE params_ref,
     wav |-> seg_wav_bytes, frames |-> r1.frames, seg_duration |-> r1.dur]

\* lines 70-91: the first segment sets the reference, a differing one is resampled
checked_audio(params_ref, seg_wav_bytes, r1) ==
    IF params_ref = NoParams
    THEN [raised |-> FALSE, params_ref |-> r1.params, wav |-> seg_wav_bytes,
          frames |-> r1.frames, seg_duration |-> r1.dur]
    ELSE IF r1.params # params_ref
    THEN reread(params_ref, resample_wav_bytes(seg_wav_bytes, params_ref[3],
                                               params_ref[1], params_ref[2]))
    ELSE [raised |-> FALSE, params_ref |-> params_ref, wav |-> seg_wav_bytes,
          frames |-> r1.frames, seg_duration |-> r1.dur]

\* lines 68-91 of run_pipeline: parse, check against the reference, resample
segment_audio(params_ref, seg_wav_bytes) ==
    checked_audio(params_ref, seg_wav_bytes, read_wav_params_and_frames(seg_wav_bytes))

\* lines 103-111: the segment's rows on the global time axis
shift_rows(char_items, offset, langcode) ==
    [i \in 1..Len(char_items) |->
        [char |-> char_items[i].char,
         start |-> char_items[i].start + offset,
         end |-> char_items[i].end + offset,
         lang |-> langcode]]

\* mutant: the frames are appended before the parameters are compared
accumulate_append_before_check(st, seg, a, char_items) ==
    IF a.raised
    THEN [st EXCEPT !.raised = TRUE, !.frames_list = Append(st.frames_list, a.frames)]
    ELSE [frames_list |-> Append(st.frames_list, a.frames),
          params_ref |-> a.params_ref,
          offset |-> st.offset + a.seg_duration,
          flat_rows |-> st.flat_rows \o shift_rows(char_items, st.offset, seg.langcode),
          raised |-> FALSE]

\* mutant: the rows are shifted by the offset after the segment's duration
\* was added
accumulate_shift_after(st, seg, a, char_items) ==
    IF a.raised THEN [st EXCEPT !.raised = TRUE]
    ELSE [frames_list |-> Append(st.frames_list, a.frames),
          params_ref |-> a.params_ref,
          offset |-> st.offset + a.seg_duration,
          flat_rows |-> st.flat_rows \o shift_rows(char_items,
                            st.offset + a.seg_duration, seg.langcode),
          raised |-> FALSE]

\* lines 93-114: append the frames, shift the rows, advance the offset;
\* st = [frames_list, params_ref, offset, flat_rows, raised]
accumulate(st, seg, a, char_items) ==
    IF a.raised THEN [st EXCEPT !.raised = TRUE]
    ELSE [frames_list |-> Append(st.frames_list, a.frames),
          params_ref |-> a.params_ref,
          offset |-> st.offset + a.seg_duration,
          flat_rows |-> st.flat_rows \o shift_rows(char_items, st.offset, seg.langcode),
          raised |-> FALSE]

\* mutant: the offset follows the end of the segment's last aligned character
accumulate_alignment_clock(st, seg, a, char_items) ==
    IF a.raised THEN [st EXCEPT !.raised = TRUE]
    ELSE [frames_list |-> Append(st.frames_list, a.frames),
          params_ref |-> a.params_ref,
          offset |-> st.offset + (IF char_items # <<>>
                                  THEN char_items[Len(char_items)].end
                                  ELSE a.seg_duration),
          flat_rows |-> st.flat_rows \o shift_rows(char_items, st.offset, seg.langcode),
          raised |-> FALSE]

process_segment_alignment_clock(st, seg, seg_wav_bytes, char_items) ==
    accumulate_alignment_clock(st, seg, segment_audio(st.params_ref, seg_wav_bytes),
                               char_items)

\* one iteration of the loop of run_pipeline without a collaborator failure
process_segment(st, seg, seg_wav_bytes, char_items) ==
    accumulate(st, seg, segment_audio(st.params_ref, seg_wav_bytes), char_items)

\* mutant: a header-only WAV with default parameters instead of the empty buffer
merged_audio_header_only(frames_list, params_ref) ==
    IF params_ref = NoParams THEN Wav(<<1, 2, 2>>, 0)
    ELSE concat_wav_frames(frames_list, params_ref)

\* lines 117-122: merged_audio
merged_audio(frames_list, params_ref) ==
    IF params_ref = NoParams THEN EmptyAudio
    ELSE concat_wav_frames(frames_list, params_ref)

\* lines 125-127
PipelineOutput(audio, chars_time) == [audio |-> audio, chars_time |-> chars_time]

\* the two objects the handler puts into storage, in order
artifacts(out) ==
    <<[key |-> "final.wav", data |-> out.audio],
      [key |-> "chars_merged.json", data |-> out.chars_time]>>

\* mutant: the handler swallows the pipeline's exception and goes on with an
\* empty result
route_outcome_swallow(outcome, out, s3_fail_at) ==
    [route |-> IF s3_fail_at < 3 THEN "error" ELSE "ok",
     uploads |-> SubSeq(artifacts(out), 1, IF s3_fail_at < 2 THEN s3_fail_at ELSE 2)]

\* the handler after run_pipeline_service: HTTP 500 when it raised, otherwise
\* two uploads and two presigns; s3_fail_at is the storage call that raises
\* (0, 1: an upload, 2: a presign, 3: none)
route_outcome(outcome, out, s3_fail_at) ==
    IF outcome = "failed" THEN [route |-> "error", uploads |-> <<>>]
    ELSE [route |-> IF s3_fail_at < 3 THEN "error" ELSE "ok",
          uploads |-> SubSeq(artifacts(out), 1, IF s3_fail_at < 2 THEN s3_fail_at ELSE 2)]

\* what align_client.align may return for a segment: up to MaxRows rows
CharTimestamps(seg_text) ==
    { [char |-> strip(seg_text)[1], start |-> s, end |-> e] :
        s \in 0..MaxAlignT, e \in 0..MaxAlignT } 
AlignResults(seg_text) ==
    UNION { [1..n -> {c \in CharTimestamps(seg_text) : c.start <= c.end}] : n \in 0..MaxRows }

\* --------------------------------------------------------------- backfill
\* An aligned row is [char, start, end]; its times are rationals, in seconds.
\* text.find(first_char)
find(text, ch) ==
    IF \E i \in 1..Len(text) : text[i] = ch
    THEN (CHOOSE i \in 1..Len(text) :
            text[i] = ch /\ \A j \in 1..(i - 1) : text[j] # ch) - 1
    ELSE -1

\* mutant: a character that is not found counts the whole text as missing
_find_first_match_index_all_missing(text, first_char) ==
    IF find(text, first_char) >= 0 THEN find(text, first_char) ELSE Len(text)

_find_first_match_index(text, first_char) ==
    IF find(text, first_char) >= 0 THEN find(text, first_char) ELSE 0

\* the n rows of text[0:n], each step wide
leading_prefix(text, n, step) ==
    [i \in 1..n |-> [char |-> text[i],
                     start |-> RatScale(step, i - 1),
                     end |-> RatScale(step, i)]]

\* mutant: the gap is divided by the length of the text
_fill_leading_equal_division_by_len(text, aligned_chars) ==
    IF aligned_chars = <<>> THEN aligned_chars
    ELSE IF aligned_chars[1].start[1] <= 0 THEN aligned_chars
    ELSE IF _find_first_match_index(text, aligned_chars[1].char) <= 0 THEN aligned_chars
    ELSE leading_prefix(text, _find_first_match_index(text, aligned_chars[1].char),
                        RatDiv(aligned_chars[1].start, Len(text)))
         \o aligned_chars

_fill_leading_equal_division(text, aligned_chars) ==
    IF aligned_chars = <<>> THEN aligned_chars
    ELSE IF aligned_chars[1].start[1] <= 0 THEN aligned_chars
    ELSE IF _find_first_match_index(text, aligned_chars[1].char) <= 0 THEN aligned_chars
    ELSE leading_prefix(text, _find_first_match_index(text, aligned_chars[1].char),
                        RatDiv(aligned_chars[1].start,
                               _find_first_match_index(text, aligned_chars[1].char)))
         \o aligned_chars

\* ------------------------------------------------- character extraction
\* A dict is a function from its keys; d.get(k) is <<>> for None and <<v>>
\* for the value v.
get(d, k) == IF k \in DOMAIN d THEN <<d[k]>> ELSE <<>>

\* d.get(k1) or d.get(k2) or ...: the first truthy operand, else the last;
\* None and the falsy value of the operands' type (the empty string, zero)
\* are false
RECURSIVE or_chain(_, _, _)
or_chain(d, keys, falsy) ==
    IF Len(keys) = 1 THEN get(d, keys[1])
    ELSE IF get(d, Head(keys)) # <<>> /\ get(d, Head(keys))[1] # falsy
         THEN get(d, Head(keys))
    ELSE or_chain(d, Tail(keys), falsy)

\* the body of `for r in rows`: nothing, or the one extracted row
extract_row(r) ==
    LET ch == or_chain(r, <<"char", "text", "token">>, "")
        st == or_chain(r, <<"start", "start_ts", "ts_start", "begin">>, <<0, 1>>)
        ed == or_chain(r, <<"end", "end_ts", "ts_end", "final", "finish">>, <<0, 1>>)
    IN IF ch = <<>> \/ st = <<>> \/ ed = <<>> THEN <<>>
       ELSE <<[char |-> ch[1], start |-> st[1], end |-> ed[1]]>>

RECURSIVE extract_rows(_)
extract_rows(rows) ==
    IF rows = <<>> THEN <<>> ELSE extract_row(Head(rows)) \o extract_rows(Tail(rows))

\* the rows under the first of the four keys whose value is not None
RECURSIVE segment_rows(_, _)
segment_rows(seg, keys) ==
    IF keys = <<>> THEN <<>>
    ELSE IF get(seg, Head(keys)) # <<>> THEN seg[Head(keys)]
    ELSE segment_rows(seg, Tail(keys))

RECURSIVE _extract_char_items(_)
_extract_char_items(segments) ==
    IF segments = <<>> THEN <<>>
    ELSE extract_rows(segment_rows(Head(segments),
                <<"char-segments", "char_segments", "chars", "characters">>))
            \o _extract_char_items(Tail(segments))

\* ------------------------------------------------------------------ state
E2E_TEXT ==
    <<"a","a","a","a","a"," ","a","a","a","a","a",".",
      " ","Z","Z","Z","Z",".",
      "Z","Z","k","k","k","Z","Z","k","k","k",".">>

\* a whitespace-only chunk between two delimiters, then more text
BLANK_BETWEEN_TEXT == <<"a", ".", " ", ".", "Z">>

\* three languages, none relabelled
THREE_LANG_TEXT == <<"Z", ".", "a", ".", "k">>

NotableTexts == {E2E_TEXT, BLANK_BETWEEN_TEXT, THREE_LANG_TEXT}
Texts == UNION {[1..n -> SegChars] : n \in 0..MaxLen} \cup NotableTexts
ProbeTexts == {<<"1">>}
\* the value of result before the first return
NoResult == [segments |-> <<>>, contain_lang |-> <<>>, pending |-> TRUE]

VARIABLES
    text,              \* the text whose segmentation is observed
    _FASTTEXT_MODEL,   \* the process-wide model handle
    lid176,            \* the predictions of the model file, as far as queried
    result,            \* what the last segment_text(text) returned
    returned,          \* everything segment_text(text) has returned
    calls,             \* number of segment_text(text) calls made
    pc,                \* position of run_pipeline: idle, loop, done, failed
    seg_out,           \* run_pipeline: the segments being processed
    idx,               \* run_pipeline: number of segments processed
    frames_list,       \* run_pipeline: the accumulated blocks of frames
    params_ref,        \* run_pipeline: reference audio parameters
    offset,            \* run_pipeline: global offset, in ticks
    flat_rows,         \* run_pipeline: the merged timestamp rows
    char_items,        \* run_pipeline: what align_client.align last returned
    output,            \* the PipelineOutput returned
    tts_calls,         \* number of tts_client.get_tts_wav calls made
    align_calls,       \* number of align_client.align calls made
    raised,            \* the exception that ended run_pipeline, if any
    cancelled,         \* the caller has signalled cancellation of the run
    route,             \* position of the HTTP handler: idle, segmented, ok, error
    uploads,           \* the objects the handler has put into storage
    call,              \* function harness: the function called and its arguments
    ret,               \* function harness: what the call returned
    thread_pc,         \* per thread: position inside _get_language_model
    loads              \* number of fasttext.load_model executions

segvars == <<text, _FASTTEXT_MODEL, lid176, result, returned, calls>>
loopvars == <<frames_list, params_ref, offset, flat_rows>>
pipevars == <<pc, seg_out, idx, frames_list, params_ref, offset, flat_rows, output,
              tts_calls, align_calls, raised, cancelled, route, uploads, char_items>>
fnvars == <<call, ret>>
loadvars == <<thread_pc, loads>>
vars == <<text, _FASTTEXT_MODEL, lid176, result, returned, calls,
          pc, seg_out, idx, frames_list, params_ref, offset, flat_rows, output,
          tts_calls, align_calls, raised, cancelled, route, uploads, char_items,
          call, ret, thread_pc, loads>>

\* no exception
NoError == "None"

PipeIdle ==
    /\ pc = "idle"
    /\ seg_out = <<>>
    /\ idx = 0
    /\ frames_list = <<>>
    /\ params_ref = NoParams
    /\ offset = 0
    /\ flat_rows = <<>>
    /\ output = NoOutput
    /\ tts_calls = 0
    /\ align_calls = 0
    /\ raised = NoError
    /\ cancelled = FALSE
    /\ route = "idle"
    /\ uploads = <<>>
    /\ char_items = <<>>

SegIdle ==
    /\ _FASTTEXT_MODEL = None
    /\ lid176 = <<>>
    /\ result = NoResult
    /\ returned = {}
    /\ calls = 0

\* no function call under observation
NoCall == [fn |-> "none", args |-> <<>>, again |-> FALSE]
NotReturned == [pending |-> TRUE]
FnIdle ==
    /\ call = NoCall
    /\ ret = NotReturned

\* no thread inside _get_language_model
LoadIdle ==
    /\ thread_pc = <<>>
    /\ loads = 0

Init ==
    /\ text \in Texts
    /\ SegIdle
    /\ PipeIdle
    /\ FnIdle
    /\ LoadIdle

\* ft1 extended by predictions for the windows the adhesion correction asks about
AdhesionAnswers(t, g, ft1) ==
    { ft1 @@ h : h \in
        [adhesion_queries(spans_before_adhesion(t, g, ft1).spans, t, MAX_ZH_LEN, TRUE)
            \ DOMAIN ft1 -> Predictions] }

\* the predictions of the model file for the strings a call on t asks about,
\* consistent with what is already known of the file
ModelAnswers(t) ==
    UNION { AdhesionAnswers(t, _FASTTEXT_MODEL, lid176 @@ h1) :
              h1 \in [chunk_queries(t) \ DOMAIN lid176 -> Predictions] }

\* a request calls segment_text(TextIn(text=text))
SegmentText ==
    /\ calls < MaxCalls
    /\ \E ft \in ModelAnswers(text) :
        \E r \in {segment_text(text, _FASTTEXT_MODEL, ft)} :
            /\ result' = r.out
            /\ returned' = returned \cup {r.out}
            /\ _FASTTEXT_MODEL' = r.model
            /\ lid176' = ft
    /\ calls' = calls + 1
    /\ UNCHANGED <<text, pipevars, fnvars, loadvars>>

\* another request calls segment_text on some other text
SegmentOtherText ==
    /\ \E u \in ProbeTexts : \E ft \in ModelAnswers(u) :
        /\ _FASTTEXT_MODEL' = segment_text(u, _FASTTEXT_MODEL, ft).model
        /\ lid176' = ft
    /\ UNCHANGED <<text, result, returned, calls, pipevars, fnvars, loadvars>>

Next == SegmentText \/ SegmentOtherText

Spec == Init /\ [][Next]_vars

\* ------------------------------------------------- run_pipeline, by steps
PipeTexts ==
    { <<>>, <<" ">>, <<"a">>, <<"1">>, <<"a", ".", "Z">>, <<"Z", ".", "k">>,
      <<"k", ".", " ", "a">> }
MediaTypes == {"wav", "mp3", "flac", "ogg"}

PipeInit ==
    /\ text \in PipeTexts
    /\ SegIdle
    /\ PipeIdle
    /\ FnIdle
    /\ LoadIdle

\* the handler is called: segment_text for the manifest's contain_lang
RouteSegment ==
    /\ route = "idle"
    /\ \E ft \in ModelAnswers(text) :
        \E r \in {segment_text(text, _FASTTEXT_MODEL, ft)} :
            /\ result' = r.out
            /\ returned' = returned \cup {r.out}
            /\ _FASTTEXT_MODEL' = r.model
            /\ lid176' = ft
    /\ calls' = calls + 1
    /\ route' = "segmented"
    /\ UNCHANGED <<text, pc, seg_out, idx, loopvars, output, tts_calls, align_calls,
                   raised, cancelled, uploads, char_items, fnvars, loadvars>>

\* run_pipeline is called: media type check, then segment_text
PipelineStart ==
    /\ route = "segmented"
    /\ pc = "idle"
    /\ \E media_type \in MediaTypes :
        IF media_type # "wav"
        THEN /\ pc' = "failed"
             /\ raised' = "NotImplementedError"
             /\ UNCHANGED <<seg_out, _FASTTEXT_MODEL, lid176>>
        ELSE \E ft \in ModelAnswers(text) :
                \E r \in {segment_text(text, _FASTTEXT_MODEL, ft)} :
                    /\ seg_out' = r.out.segments
                    /\ _FASTTEXT_MODEL' = r.model
                    /\ lid176' = ft
                    /\ pc' = "loop"
                    /\ raised' = raised
    /\ UNCHANGED <<text, result, returned, calls, idx, loopvars, output,
                   tts_calls, align_calls, cancelled, route, uploads, char_items, fnvars, loadvars>>

\* one iteration of the segment loop: synthesis, parameter check, alignment,
\* shift, offset; RuntimeError when resampling does not reconcile
PipelineSegment ==
    /\ pc = "loop"
    /\ idx < Len(seg_out)
    /\ \E wav \in TtsWavs : \E aligned \in AlignResults(seg_out[idx + 1].text) :
        \E st \in {process_segment(
                    [frames_list |-> frames_list, params_ref |-> params_ref,
                     offset |-> offset, flat_rows |-> flat_rows, raised |-> FALSE],
                    seg_out[idx + 1], wav, aligned)} :
            /\ char_items' = IF st.raised THEN char_items ELSE aligned
            /\ frames_list' = st.frames_list
            /\ params_ref' = st.params_ref
            /\ offset' = st.offset
            /\ flat_rows' = st.flat_rows
            /\ idx' = IF st.raised THEN idx ELSE idx + 1
            /\ pc' = IF st.raised THEN "failed" ELSE "loop"
            /\ raised' = IF st.raised THEN "RuntimeError" ELSE raised
            /\ align_calls' = IF st.raised THEN align_calls ELSE align_calls + 1
    /\ tts_calls' = tts_calls + 1
    /\ UNCHANGED <<segvars, seg_out, output, cancelled, route, uploads, fnvars, loadvars>>

\* tts_client.get_tts_wav raises (HTTP error, JSON instead of audio)
PipelineTtsFails ==
    /\ pc = "loop"
    /\ idx < Len(seg_out)
    /\ pc' = "failed"
    /\ raised' = "TtsError"
    /\ tts_calls' = tts_calls + 1
    /\ UNCHANGED <<segvars, seg_out, idx, loopvars, output, align_calls,
                   cancelled, route, uploads, char_items, fnvars, loadvars>>

\* resample_wav_bytes raises on a segment whose parameters differ
PipelineResampleFails ==
    /\ pc = "loop"
    /\ idx < Len(seg_out)
    /\ params_ref # NoParams
    /\ \E wav \in TtsWavs : read_wav_params_and_frames(wav).params # params_ref
    /\ pc' = "failed"
    /\ raised' = "ResampleError"
    /\ tts_calls' = tts_calls + 1
    /\ UNCHANGED <<segvars, seg_out, idx, loopvars, output, align_calls,
                   cancelled, route, uploads, char_items, fnvars, loadvars>>

\* align_client.align raises, after the segment's frames were appended
PipelineAlignFails ==
    /\ pc = "loop"
    /\ idx < Len(seg_out)
    /\ \E wav \in TtsWavs : \E a \in {segment_audio(params_ref, wav)} :
        /\ ~a.raised
        /\ frames_list' = Append(frames_list, a.frames)
        /\ params_ref' = a.params_ref
    /\ pc' = "failed"
    /\ raised' = "AlignError"
    /\ tts_calls' = tts_calls + 1
    /\ align_calls' = align_calls + 1
    /\ UNCHANGED <<segvars, seg_out, idx, offset, flat_rows, output,
                   cancelled, route, uploads, char_items, fnvars, loadvars>>

\* after the loop: merge the audio, serialise the rows, return
PipelineFinish ==
    /\ pc = "loop"
    /\ idx = Len(seg_out)
    /\ output' = PipelineOutput(merged_audio(frames_list, params_ref), flat_rows)
    /\ pc' = "done"
    /\ UNCHANGED <<segvars, seg_out, idx, loopvars, tts_calls, align_calls,
                   raised, cancelled, route, uploads, char_items, fnvars, loadvars>>

\* the handler after run_pipeline_service returned or raised
RouteRespond ==
    /\ route = "segmented"
    /\ pc \in {"done", "failed"}
    /\ \E s3_fail_at \in 0..3 : \E r \in {route_outcome(pc, output, s3_fail_at)} :
        /\ route' = r.route
        /\ uploads' = r.uploads
    /\ UNCHANGED <<segvars, pc, seg_out, idx, loopvars, output, tts_calls,
                   align_calls, raised, cancelled, char_items, fnvars, loadvars>>

\* the caller signals that the run is to be abandoned
CancelRequested ==
    /\ pc = "loop"
    /\ ~cancelled
    /\ cancelled' = TRUE
    /\ UNCHANGED <<segvars, pc, seg_out, idx, loopvars, output, tts_calls,
                   align_calls, raised, route, uploads, char_items, fnvars, loadvars>>

PipeNext ==
    \/ RouteSegment
    \/ PipelineStart
    \/ PipelineSegment
    \/ PipelineTtsFails
    \/ PipelineResampleFails
    \/ PipelineAlignFails
    \/ PipelineFinish
    \/ RouteRespond
    \/ CancelRequested

PipeSpec == PipeInit /\ [][PipeNext]_vars

\* ------------------------------------------ the helper functions, called
\* A call is [fn, args, again]; Init draws it, one action applies the function.
Call(fn, args) == [fn |-> fn, args |-> args, again |-> FALSE]

CoarseTexts == UNION {[1..n -> {"a", "Z", "k", "1", "$"}] : n \in 0..MaxLen}

\* spans of one character each over the positions 0..3, some of them with
\* scores that favour another language than their own
MergeSpans ==
    { _Span(p, p + 1, <<"Z">>, l[1], OneHot(l[2])) :
        p \in 0..2, l \in {<<"zh", "zh">>, <<"zh", "ja">>, <<"ja", "ja">>} }
\* spans of different lengths, one of them with a text shorter than its range
LONG_SPANS ==
    << _Span(0, 2, <<"Z", "Z">>, "zh", OneHot("zh")),
       _Span(2, 3, <<"Z">>, "zh", OneHot("ja")),
       _Span(3, 6, <<"Z", "Z">>, "zh", OneHot("zh")),
       _Span(6, 7, <<"Z">>, "zh", OneHot("zh")) >>
\* spans whose scores do not add up to one
PARTIAL_SPANS ==
    << _Span(0, 1, <<"Z">>, "zh",
             [l \in LangSet |-> CASE l = "zh" -> <<1, 2>> [] l = "ja" -> <<1, 4>>
                                   [] OTHER -> <<0, 1>>]),
       _Span(1, 4, <<"Z", "Z", "Z">>, "zh",
             [l \in LangSet |-> CASE l = "zh" -> <<1, 4>> [] l = "ja" -> <<1, 4>>
                                   [] OTHER -> <<0, 1>>]) >>
SpanLists ==
    UNION {[1..n -> MergeSpans] : n \in 0..MaxLen} \cup {LONG_SPANS, PARTIAL_SPANS}
MaxLenChoices == {2, 3, MAX_LEN}

FillTexts == UNION {[1..n -> {"a", "Z"}] : n \in 0..MaxLen}
AlignedRows ==
    { [char |-> c, start |-> <<t, 1>>, end |-> <<t + 1, 1>>] :
        c \in {"a", "Z", "k"}, t \in (0 - 1)..(MaxAlignT + 1) }
LaterRows ==
    { [char |-> c, start |-> <<3, 1>>, end |-> <<4, 1>>] : c \in {"a", "Z"} }
\* any first row, then up to MaxRows later ones
AlignedLists ==
    {<<>>} \cup
    { <<r>> \o l : r \in AlignedRows,
                   l \in UNION {[1..n -> LaterRows] : n \in 0..MaxRows} }
\* the first aligned row is the fourth character, at 0.9 s
GAP_TEXT == <<"a", "Z", "a", "k">>
GAP_ROWS == << [char |-> "k", start |-> <<9, 10>>, end |-> <<1, 1>>],
               [char |-> "a", start |-> <<1, 1>>, end |-> <<2, 1>>] >>

SplitTexts == UNION {[1..n -> {"a", "Z", ".", ",", " "}] : n \in 0..MaxLen}

\* The spans the adhesion correction is handed, by kind: a short zh span, a
\* zh span of four characters, a ja span with Kana, a ja span without, an en
\* span.  zh spans hold no Kana: a chunk with Kana is detected as ja.
kind_span(kind, start) ==
    CASE kind = "zh1" -> _Span(start, start + 1, <<"Z">>, "zh", OneHot("zh"))
      [] kind = "zh4" ->
            _Span(start, start + 4, <<"Z", "Z", "Z", "Z">>, "zh", OneHot("zh"))
      [] kind = "jak" -> _Span(start, start + 1, <<"k">>, "ja", OneHot("ja"))
      [] kind = "jaZ" -> _Span(start, start + 1, <<"Z">>, "ja", OneHot("zh"))
      [] OTHER -> _Span(start, start + 1, <<"a">>, "en", OneHot("en"))

\* the spans laid out one after the other from start
RECURSIVE layout(_, _)
layout(kinds, start) ==
    IF kinds = <<>> THEN <<>>
    ELSE <<kind_span(Head(kinds), start)>>
            \o layout(Tail(kinds), kind_span(Head(kinds), start).end)

RECURSIVE joined_text(_)
joined_text(spans) ==
    IF spans = <<>> THEN <<>> ELSE Head(spans).text \o joined_text(Tail(spans))

AdhesionSpanLists ==
    { layout(ks, 0) :
        ks \in UNION {[1..n -> {"zh1", "zh4", "jak", "jaZ", "en"}] : n \in 0..MaxLen} }
\* the default of _smooth_ja_adhesion and the value _segment_text_pure passes
MaxZhLenChoices == {3, MAX_ZH_LEN}

\* Character rows of an alignment result: fully timed rows, from time zero
\* on; a character the aligner could not place; rows under other key names;
\* a row whose zero start is repeated under the last alias.
TimedRows ==
    { [char |-> c, start |-> <<s, 1>>, end |-> <<e, 1>>] :
        c \in {"a", "Z"}, s \in 0..MaxAlignT, e \in 0..MaxAlignT }
OtherRows ==
    { [char |-> "a"],
      [token |-> "a", begin |-> <<1, 1>>, finish |-> <<2, 1>>],
      [char |-> "a", start |-> <<0, 1>>, begin |-> <<0, 1>>, end |-> <<1, 1>>] }
RowLists ==
    UNION { [1..n -> {r \in TimedRows : r.start[1] <= r.end[1]} \cup OtherRows] :
              n \in 0..(MaxRows + 1) }
\* a segment with its rows under one of two keys, or with words only
AlignedSegments ==
    { k :> rows : k \in {"char-segments", "chars"}, rows \in RowLists }
    \cup { "words" :> <<>> }
\* one segment, as align passes one coarse segment; none; and two
SegmentLists ==
    {<<>>} \cup { <<seg>> : seg \in AlignedSegments }
    \cup { << "words" :> <<>>, seg >> :
              seg \in { "chars" :> <<r>> : r \in OtherRows } }

FnCalls ==
    {Call("_coarse_segments", <<t>>) : t \in CoarseTexts}
    \cup {Call("_extract_char_items", <<l>>) : l \in SegmentLists}
    \cup {Call("_smooth_ja_adhesion", <<l, joined_text(l), m, k>>) :
            l \in AdhesionSpanLists, m \in MaxZhLenChoices, k \in BOOLEAN}
    \cup {Call("_split_by_punctuation", <<t>>) : t \in SplitTexts}
    \cup {Call("_merge_adjacent", <<l, m>>) : l \in SpanLists, m \in MaxLenChoices}
    \cup {Call("_fill_leading_equal_division", <<t, a>>) :
            t \in FillTexts, a \in AlignedLists}
    \cup {Call("_fill_leading_equal_division", <<GAP_TEXT, GAP_ROWS>>)}

FnInit ==
    /\ text = <<>>
    /\ SegIdle
    /\ PipeIdle
    /\ LoadIdle
    /\ call \in FnCalls
    /\ ret = NotReturned

Returns(v) == [value |-> v]

CoarseSegments ==
    /\ call.fn = "_coarse_segments"
    /\ ret = NotReturned
    /\ ret' = Returns(_coarse_segments(call.args[1]))
    /\ UNCHANGED <<segvars, pipevars, call, loadvars>>

SplitByPunctuation ==
    /\ call.fn = "_split_by_punctuation"
    /\ ret = NotReturned
    /\ ret' = Returns(_split_by_punctuation(call.args[1]))
    /\ UNCHANGED <<segvars, pipevars, call, loadvars>>

MergeAdjacent ==
    /\ call.fn = "_merge_adjacent"
    /\ ret = NotReturned
    /\ ret' = Returns(_merge_adjacent(call.args[1], call.args[2]))
    /\ UNCHANGED <<segvars, pipevars, call, loadvars>>

\* _merge_adjacent is called on what it returned, with the same max_len
MergeAdjacentAgain ==
    /\ call.fn = "_merge_adjacent"
    /\ ret # NotReturned
    /\ ~call.again
    /\ call' = [fn |-> call.fn, args |-> <<ret.value, call.args[2]>>, again |-> TRUE]
    /\ ret' = Returns(_merge_adjacent(ret.value, call.args[2]))
    /\ UNCHANGED <<segvars, pipevars, loadvars>>

\* the model file answers for the windows the correction rescores
SmoothJaAdhesion ==
    /\ call.fn = "_smooth_ja_adhesion"
    /\ ret = NotReturned
    /\ \E ft \in [adhesion_queries(call.args[1], call.args[2], call.args[3],
                                    call.args[4]) -> Predictions] :
        \E r \in {_smooth_ja_adhesion(call.args[1], call.args[2], call.args[3],
                                      call.args[4], _FASTTEXT_MODEL, ft)} :
            /\ ret' = Returns(r.fixed)
            /\ _FASTTEXT_MODEL' = r.model
            /\ lid176' = ft
    /\ UNCHANGED <<text, result, returned, calls, pipevars, call, loadvars>>

ExtractCharItems ==
    /\ call.fn = "_extract_char_items"
    /\ ret = NotReturned
    /\ ret' = Returns(_extract_char_items(call.args[1]))
    /\ UNCHANGED <<segvars, pipevars, call, loadvars>>

FillLeadingEqualDivision ==
    /\ call.fn = "_fill_leading_equal_division"
    /\ ret = NotReturned
    /\ ret' = Returns(_fill_leading_equal_division(call.args[1], call.args[2]))
    /\ UNCHANGED <<segvars, pipevars, call, loadvars>>

FnNext ==
    \/ CoarseSegments
    \/ SplitByPunctuation
    \/ MergeAdjacent
    \/ MergeAdjacentAgain
    \/ SmoothJaAdhesion
    \/ ExtractCharItems
    \/ FillLeadingEqualDivision

FnSpec == FnInit /\ [][FnNext]_vars

\* ------------------------------- _get_language_model under concurrent use
\* The handler is a plain def, so every request runs segment_text on a thread
\* of the server's pool; a thread may be preempted between any two steps.
Threads == 1..MaxThreads

LoadInit ==
    /\ text = <<>>
    /\ SegIdle
    /\ PipeIdle
    /\ FnIdle
    /\ thread_pc = [t \in Threads |-> "idle"]
    /\ loads = 0

\* a request's _scores_fasttext calls _get_language_model()
EnterGetLanguageModel(t) ==
    /\ thread_pc[t] = "idle"
    /\ thread_pc' = [thread_pc EXCEPT ![t] = "check"]
    /\ UNCHANGED <<segvars, pipevars, fnvars, loads>>

\* if _FASTTEXT_MODEL is None
CheckModel(t) ==
    /\ thread_pc[t] = "check"
    /\ thread_pc' = [thread_pc EXCEPT ![t] =
                        IF _FASTTEXT_MODEL = None THEN "load" ELSE "return"]
    /\ UNCHANGED <<segvars, pipevars, fnvars, loads>>

\* fasttext.load_model(str(model_path)) runs
LoadModel(t) ==
    /\ thread_pc[t] = "load"
    /\ loads' = loads + 1
    /\ thread_pc' = [thread_pc EXCEPT ![t] = "store"]
    /\ UNCHANGED <<segvars, pipevars, fnvars>>

\* _FASTTEXT_MODEL = <the loaded model>
StoreModel(t) ==
    /\ thread_pc[t] = "store"
    /\ _FASTTEXT_MODEL' = Loaded
    /\ thread_pc' = [thread_pc EXCEPT ![t] = "return"]
    /\ UNCHANGED <<text, lid176, result, returned, calls, pipevars, fnvars, loads>>

\* return _FASTTEXT_MODEL
ReturnModel(t) ==
    /\ thread_pc[t] = "return"
    /\ thread_pc' = [thread_pc EXCEPT ![t] = "done"]
    /\ UNCHANGED <<segvars, pipevars, fnvars, loads>>

LoadNext ==
    \E t \in Threads :
        \/ EnterGetLanguageModel(t)
        \/ CheckModel(t)
        \/ LoadModel(t)
        \/ StoreModel(t)
        \/ ReturnModel(t)

LoadSpec == LoadInit /\ [][LoadNext]_vars

\* ------------------------------------------------------------- properties
Returned == result # NoResult
Segs == result.segments
PresentLangs == {Segs[i].langcode : i \in 1..Len(Segs)}
FirstIndex(l) == CHOOSE i \in 1..Len(Segs) :
    Segs[i].langcode = l /\ \A j \in 1..(i - 1) : Segs[j].langcode # l

\* C1: for 'Hello world! 这是测试。今日はいい天気ですね。' segment_text returns
\* contain_lang = [en, zh, ja], with a zh segment covering 这是测试。 (offsets
\* 13..18) that is another segment than the ja one covering the last
\* sentence (offsets 18..29).
C1_EndToEndLanguages ==
    (text = E2E_TEXT /\ Returned) =>
        /\ result.contain_lang = <<"en", "zh", "ja">>
        /\ \E i, j \in 1..Len(Segs) :
            /\ i # j
            /\ Segs[i].langcode = "zh" /\ Segs[i].start <= 13 /\ Segs[i].end >= 18
            /\ Segs[j].langcode = "ja" /\ Segs[j].start <= 18 /\ Segs[j].end >= 29

C3_Determinism == Cardinality(returned) <= 1

C3_Witness ==
    /\ calls >= 2
    /\ _FASTTEXT_MODEL = Loaded
    /\ ft_input(text) \in DOMAIN lid176
    /\ Len(Segs) >= 1

\* C4: on the empty string and on whitespace-only text segment_text returns
\* segments = [] and contain_lang = [].
C4_BlankTextEmptyResult ==
    (Returned /\ \A i \in 1..Len(text) : isspace(text[i])) =>
        result = [segments |-> <<>>, contain_lang |-> <<>>]

C4_Witness == Returned /\ text = <<" ", " ">>

\* C5: consecutive segments are contiguous, the first one's end is the
\* second one's start.
C5_Contiguous ==
    Returned => \A i \in 1..(Len(Segs) - 1) : Segs[i].end = Segs[i + 1].start

C5_Witness ==
    /\ Returned /\ Len(Segs) = 2
    /\ text = BLANK_BETWEEN_TEXT
    /\ Segs[1].end = 4

\* C6: segments are in ascending order and do not overlap, each within the
\* text: 0 <= start < end <= len(text), end <= next start.
C6_OrderedInBounds ==
    Returned =>
        /\ \A i \in 1..Len(Segs) :
            0 <= Segs[i].start /\ Segs[i].start < Segs[i].end /\ Segs[i].end <= Len(text)
        /\ \A i \in 1..(Len(Segs) - 1) : Segs[i].end <= Segs[i + 1].start

C6_Witness ==
    /\ Returned /\ Len(Segs) = 3
    /\ Segs[1].start = 0 /\ Segs[3].end = Len(text)
    /\ \A i \in 1..Len(Segs) : Segs[i].end - Segs[i].start < Len(text)

\* C7: every segment's text is the substring of the source at its range.
C7_TextIsSubstring ==
    Returned => \A i \in 1..Len(Segs) :
        Segs[i].text = Slice(text, Segs[i].start, Segs[i].end)

PunctChunks ==
    LET chunks == _split_by_punctuation(text)
    IN { k \in 1..Len(chunks) : all_punctuation(Slice(text, chunks[k][1], chunks[k][2])) }
\* a chunk before chunk k became a span
HasPrecedingSpan(k) ==
    LET chunks == _split_by_punctuation(text)
    IN \E j \in 1..(k - 1) :
        LET t == Slice(text, chunks[j][1], chunks[j][2])
        IN ~is_blank(t) /\ ~all_punctuation(t)
Attached(k) ==
    LET c == _split_by_punctuation(text)[k]
    IN \E i \in 1..Len(Segs) : Segs[i].start < c[1] /\ c[2] <= Segs[i].end
RECURSIVE CountPunct(_)
CountPunct(s) ==
    IF s = <<>> THEN 0 ELSE (IF S_PUNC(Head(s)) THEN 1 ELSE 0) + CountPunct(Tail(s))
RECURSIVE SegTexts(_)
SegTexts(segs) == IF segs = <<>> THEN <<>> ELSE Head(segs).text \o SegTexts(Tail(segs))

\* C8 (as claimed): no segment is only punctuation, and every purely
\* punctuation chunk of the split is attached to the preceding span.
C8_EveryPunctuationChunkAttached ==
    Returned =>
        /\ \A i \in 1..Len(Segs) : ~all_punctuation(Segs[i].text)
        /\ \A k \in PunctChunks : Attached(k)

\* C8 (amended): no segment is only punctuation; a purely punctuation chunk
\* that follows a span is attached to it (covered by its range, its
\* characters appended to its text); one before the first span is dropped.
C8_PunctuationAttachedOrDropped ==
    Returned =>
        /\ \A i \in 1..Len(Segs) : ~all_punctuation(Segs[i].text)
        /\ \A k \in PunctChunks :
            IF HasPrecedingSpan(k) THEN Attached(k)
            ELSE \A i \in 1..Len(Segs) :
                    Segs[i].start >= _split_by_punctuation(text)[k][2]
        /\ Segs # <<>> =>
            CountPunct(SegTexts(Segs)) = CountPunct(Slice(text, Segs[1].start, Len(text)))

C8_Witness ==
    /\ Returned /\ Len(Segs) = 1
    /\ \E k \in PunctChunks : ~HasPrecedingSpan(k)
    /\ \E k \in PunctChunks : HasPrecedingSpan(k)

DurationOf(frames) == (frames.nframes * TicksPerSecond) \div frames.params[3]
RECURSIVE SumDurations(_)
SumDurations(fl) == IF fl = <<>> THEN 0 ELSE DurationOf(Head(fl)) + SumDurations(Tail(fl))

\* C9: after segment i the global offset is the sum of the durations (frame
\* count / frame rate) of the audio appended for segments 0..i, whatever the
\* aligner returned.
C9_OffsetIsSumOfDurations ==
    pc \in {"loop", "done"} =>
        /\ Len(frames_list) = idx
        /\ offset = SumDurations(frames_list)

C9_Witness ==
    /\ pc = "loop" /\ idx = 2
    /\ offset > 0
    /\ Len(flat_rows) = 1
    /\ flat_rows[1].end # DurationOf(frames_list[1])

\* C10: no row of the merged timestamp list starts after the total duration
\* of the merged audio.
C10_RowsWithinTotalDuration ==
    pc = "done" =>
        \A i \in 1..Len(output.chars_time) :
            output.chars_time[i].start <= SumDurations(frames_list)

\* C11: in run_pipeline the reference parameters are those of the first
\* segment and never change once set; every block of frames in the
\* accumulator comes from audio whose (channels, sample width, frame rate)
\* equal the reference, and so does the merged audio.
C11_OneParameterSet ==
    /\ [](/\ \A i \in 1..Len(frames_list) : frames_list[i].params = params_ref
          /\ (frames_list # <<>>) => (params_ref # NoParams)
          /\ (pc = "done" /\ params_ref # NoParams) => (output.audio.params = params_ref))
    /\ [][params_ref # NoParams => params_ref' = params_ref]_vars

\* a second segment was resampled from 16 kHz to 24 kHz before it was appended
C11_Witness ==
    /\ Len(frames_list) = 2
    /\ params_ref = <<1, 2, 3>>
    /\ frames_list[2].nframes > MaxFrames

\* C12: when a later segment's parameters still differ from the reference
\* after resampling, run_pipeline fails: the frames are not appended, the
\* aligner is not called for the segment, no further segment is processed and
\* no PipelineOutput is returned.
C12_IrreconcilableIsFatal ==
    [][/\ (raised' = "RuntimeError") =>
            /\ frames_list' = frames_list
            /\ align_calls' = align_calls
            /\ idx' = idx
            /\ pc' = "failed"
            /\ output' = NoOutput
       /\ (raised = "RuntimeError") => (tts_calls' = tts_calls)]_vars

\* an 8-bit first segment, then a 16-bit one: the resampler writes 16 bit
C12_Witness ==
    /\ raised = "RuntimeError"
    /\ Len(frames_list) = 1
    /\ params_ref = <<1, 1, 2>>
    /\ route = "error"

\* C13: when the synthesizer, the resampler or the aligner fails at any
\* segment, run_pipeline returns no PipelineOutput and the handler answers
\* with an error without putting anything into storage.
C13_NoPartialArtifacts ==
    (pc = "failed") =>
        /\ output = NoOutput
        /\ uploads = <<>>
        /\ route # "ok"

\* the aligner failed on the second segment, after audio had been accumulated
C13_Witness ==
    /\ raised = "AlignError"
    /\ idx = 1
    /\ Len(frames_list) = 2
    /\ flat_rows # <<>>
    /\ route = "error"

\* C14: when segmentation yields no segments, run_pipeline calls neither the
\* synthesizer nor the aligner and returns an empty audio buffer and an empty
\* timestamp list, without failing.
C14_NoSegmentsEmptyOutput ==
    (/\ seg_out = <<>>
     /\ pc \in {"loop", "done", "failed"}
     /\ raised # "NotImplementedError") =>
        /\ tts_calls = 0
        /\ align_calls = 0
        /\ pc # "failed"
        /\ (pc = "done") => (output = PipelineOutput(EmptyAudio, <<>>))

\* a whitespace-only text went through the whole pipeline
C14_Witness ==
    /\ text = <<" ">>
    /\ pc = "done"
    /\ seg_out = <<>>
    /\ output.audio = EmptyAudio

\* C18: once cancellation is signalled no further collaborator call is made
\* and the accumulated audio and timestamps are never returned.
C18_CancelStopsTheRun ==
    [][cancelled =>
        /\ tts_calls' = tts_calls
        /\ align_calls' = align_calls
        /\ pc' # "done"]_vars

FnReturned(fn) == call.fn = fn /\ ret # NotReturned

\* the Python index at which ch first occurs in t, or -1
FirstOccurrence(t, ch) ==
    IF \E i \in 1..Len(t) : t[i] = ch
    THEN (CHOOSE i \in 1..Len(t) : t[i] = ch /\ \A j \in 1..(i - 1) : t[j] # ch) - 1
    ELSE -1

\* the case of the backfill: first row at k > 0, its character first at n > 0
GapCase(t, rows) ==
    /\ rows # <<>>
    /\ rows[1].start[1] > 0
    /\ FirstOccurrence(t, rows[1].char) > 0

\* x = (i * k) / n for rationals x, k and integers i, n
IsFraction(x, i, k, n) == x[1] * k[2] * n = i * k[1] * x[2]

C16_BackfillLeavesRowsAlone ==
    FnReturned("_fill_leading_equal_division") =>
        (~GapCase(call.args[1], call.args[2]) => ret.value = call.args[2])

\* a first row at 1 s whose character does not occur in a two-character text
C16_Witness ==
    /\ FnReturned("_fill_leading_equal_division")
    /\ Len(call.args[1]) = 2
    /\ Len(call.args[2]) = 2
    /\ call.args[2][1].start = <<1, 1>>
    /\ FirstOccurrence(call.args[1], call.args[2][1].char) = -1
    /\ ret.value = call.args[2]

\* C19: the ranges of _coarse_segments partition [0, len(text)): the first
\* starts at 0, the last ends at len(text), each is non-empty and ends where
\* the next starts; the empty text gives the empty list.
C19_CoarseSegmentsPartition ==
    FnReturned("_coarse_segments") =>
        LET t == call.args[1]
            segs == ret.value
        IN /\ (t = <<>>) => (segs = <<>>)
           /\ (t # <<>>) =>
                /\ segs # <<>>
                /\ segs[1][1] = 0
                /\ segs[Len(segs)][2] = Len(t)
                /\ \A i \in 1..Len(segs) : segs[i][1] < segs[i][2]
                /\ \A i \in 1..(Len(segs) - 1) : segs[i][2] = segs[i + 1][1]

\* Han, a digit, Latin: the digit stays with the Han run
C19_Witness ==
    /\ FnReturned("_coarse_segments")
    /\ call.args[1] = <<"Z", "1", "a">>
    /\ ret.value = << <<0, 2>>, <<2, 3>> >>

\* C20: _merge_adjacent applied to its own output, with the same max_len,
\* returns that output unchanged.
C20_MergeIdempotent ==
    (call.fn = "_merge_adjacent" /\ call.again) => (ret.value = call.args[1])

\* the first pass merged two spans and the cap kept a third, contiguous one of
\* the same language apart
C20_Witness ==
    /\ call.fn = "_merge_adjacent"
    /\ call.again
    /\ call.args[2] = 2
    /\ Len(call.args[1]) = 2
    /\ Len(call.args[1][1].text) = 2
    /\ call.args[1][1].lang = call.args[1][2].lang
    /\ call.args[1][1].end = call.args[1][2].start

\* C17: under concurrent first use by several threads the language model is
\* loaded at most once.
C17_LoadedAtMostOnce == loads <= 1

\* positions p and q (Python indexes) lie in the same punctuation-delimited
\* chunk of the text
SameChunk(p, q) ==
    \A j \in (IF p < q THEN p ELSE q)..(IF p < q THEN q ELSE p) :
        ~IsDelimiter(text[j + 1])

\* a Han character that shares its chunk with a Kana character
HanBesideKana(p) ==
    /\ S_HAN(text[p + 1])
    /\ \E q \in 0..(Len(text) - 1) : HIRA_OR_KATA(text[q + 1]) /\ SameChunk(p, q)

\* C21: every Han character that shares a punctuation-delimited chunk with a
\* Kana character lies in a returned segment whose langcode is ja, and in no
\* segment labelled zh.
C21_HanBesideKanaIsJa ==
    Returned =>
        \A p \in 0..(Len(text) - 1) :
            HanBesideKana(p) =>
                /\ \E i \in 1..Len(Segs) :
                    Segs[i].start <= p /\ p < Segs[i].end /\ Segs[i].langcode = "ja"
                /\ \A i \in 1..Len(Segs) :
                    (Segs[i].start <= p /\ p < Segs[i].end) => Segs[i].langcode # "zh"

\* Han, Kana, Han in one chunk: one ja segment
C21_Witness ==
    /\ Returned
    /\ text = <<"Z", "k", "Z">>
    /\ Len(Segs) = 1
    /\ Segs[1].langcode = "ja"
    /\ Segs[1].end = 3

\* the characters of s that are neither punctuation nor whitespace, in order
Content(s) == SelectSeq(s, LAMBDA ch : ~S_PUNC(ch) /\ ~isspace(ch))

\* C29: segment_text neither loses nor duplicates content: the characters of
\* the text that are neither punctuation nor whitespace are, in input order,
\* the such characters of the concatenated segment texts, and each of their
\* positions lies in the range of exactly one segment.
C29_ContentPreserved ==
    Returned =>
        /\ Content(SegTexts(Segs)) = Content(text)
        /\ \A p \in 0..(Len(text) - 1) :
            (~S_PUNC(text[p + 1]) /\ ~isspace(text[p + 1])) =>
                Cardinality({i \in 1..Len(Segs) :
                                Segs[i].start <= p /\ p < Segs[i].end}) = 1

\* leading punctuation and a whitespace-only chunk are dropped, the content
\* of both sides is kept
C29_Witness ==
    /\ Returned
    /\ text = <<".", "1", " ">>
    /\ Len(Segs) = 1
    /\ Segs[1].text = <<"1", " ">>

IsComma(ch) == ch = ","
IsFullStop(ch) == ch = "."

\* [s, e) is a maximal run of comma-class and full-stop-class characters of t
DelimiterRun(t, s, e) ==
    /\ 0 <= s /\ s < e /\ e <= Len(t)
    /\ \A j \in s..(e - 1) : IsComma(t[j + 1]) \/ IsFullStop(t[j + 1])
    /\ (s > 0) => ~(IsComma(t[s]) \/ IsFullStop(t[s]))
    /\ (e < Len(t)) => ~(IsComma(t[e + 1]) \/ IsFullStop(t[e + 1]))

\* the text is cut at the run [s, e): the run is a chunk of its own
CutAt(chunks, s, e) == \E i \in 1..Len(chunks) : chunks[i] = <<s, e>>

\* the characters before and after the run are of different scripts, neither
\* of them NEUTRAL
ScriptSwitch(t, s, e) ==
    /\ s > 0 /\ e < Len(t)
    /\ _script_bucket(t[s]) # _script_bucket(t[e + 1])
    /\ _script_bucket(t[s]) # "NEUTRAL"
    /\ _script_bucket(t[e + 1]) # "NEUTRAL"

\* C22 (as claimed): a run of commas inside the text is a cut only where the
\* scripts before and after it differ and neither is NEUTRAL; a run with a
\* full stop always is.
C22_CommaCutsOnlyAtScriptSwitch ==
    FnReturned("_split_by_punctuation") =>
        \A s \in 0..Len(call.args[1]), e \in 0..Len(call.args[1]) :
            DelimiterRun(call.args[1], s, e) =>
                IF \E j \in s..(e - 1) : IsFullStop(call.args[1][j + 1])
                THEN CutAt(ret.value, s, e)
                ELSE (s > 0 /\ e < Len(call.args[1])) =>
                        (CutAt(ret.value, s, e) <=> ScriptSwitch(call.args[1], s, e))

\* C22 (amended): every maximal run of comma-class or full-stop-class
\* characters is a chunk of its own, whatever the scripts around it, and the
\* chunks partition the text in order.
C22_EveryDelimiterRunCuts ==
    FnReturned("_split_by_punctuation") =>
        LET t == call.args[1]
            chunks == ret.value
        IN /\ \A s \in 0..Len(t), e \in 0..Len(t) :
                DelimiterRun(t, s, e) => CutAt(chunks, s, e)
           /\ (t # <<>>) => (chunks # <<>> /\ chunks[1][1] = 0
                              /\ chunks[Len(chunks)][2] = Len(t))
           /\ \A i \in 1..Len(chunks) : chunks[i][1] < chunks[i][2]
           /\ \A i \in 1..(Len(chunks) - 1) : chunks[i][2] = chunks[i + 1][1]
           /\ \A i \in 1..Len(chunks) :
                \/ DelimiterRun(t, chunks[i][1], chunks[i][2])
                \/ \A j \in chunks[i][1]..(chunks[i][2] - 1) :
                      ~(IsComma(t[j + 1]) \/ IsFullStop(t[j + 1]))

\* a comma between two Latin letters is a cut
C22_Witness ==
    /\ FnReturned("_split_by_punctuation")
    /\ call.args[1] = <<"a", ",", "a">>
    /\ ret.value = << <<0, 1>>, <<1, 2>>, <<2, 3>> >>

\* the first position of block i when b[i] is the last position of block i
BlockStart(b, i) == IF i = 1 THEN 1 ELSE b[i - 1] + 1

RECURSIVE BlockText(_, _, _)
BlockText(spans, lo, hi) ==
    IF lo > hi THEN <<>> ELSE spans[lo].text \o BlockText(spans, lo + 1, hi)

RECURSIVE BlockLength(_, _, _)
BlockLength(spans, lo, hi) ==
    IF lo > hi THEN 0
    ELSE (spans[lo].end - spans[lo].start) + BlockLength(spans, lo + 1, hi)

\* the sum over the block of score times length
RECURSIVE WeightedSum(_, _, _, _)
WeightedSum(spans, lo, hi, k) ==
    IF lo > hi THEN <<0, 1>>
    ELSE RatAdd(RatScale(spans[lo].scores[k], spans[lo].end - spans[lo].start),
                WeightedSum(spans, lo + 1, hi, k))

\* merged[i] is the spans of block i put together, the blocks being
\* consecutive and covering spans
Covers(spans, merged, b) ==
    /\ (merged = <<>>) <=> (spans = <<>>)
    /\ merged # <<>> => b[Len(merged)] = Len(spans)
    /\ \A i \in 1..Len(merged) :
          /\ BlockStart(b, i) <= b[i]
          /\ merged[i].start = spans[BlockStart(b, i)].start
          /\ merged[i].end = spans[b[i]].end
          /\ merged[i].lang = spans[b[i]].lang
          /\ merged[i].text = BlockText(spans, BlockStart(b, i), b[i])

\* may the span at position j join the block lo..j-1 ?
Joins(spans, lo, j, max_len) ==
    /\ spans[j - 1].lang = spans[j].lang
    /\ spans[j - 1].end = spans[j].start
    /\ Len(BlockText(spans, lo, j)) <= max_len

FirstMerge == FnReturned("_merge_adjacent") /\ ~call.again

Blockings == [1..Len(ret.value) -> 1..Len(call.args[1])]

\* C23: the output of _merge_adjacent is the input cut into consecutive
\* blocks; a span joins the block before it exactly when it has the same
\* language, starts where the block ends and the joint text is no longer than
\* max_len, so no merged span is longer than max_len or crosses a gap or a
\* change of language.
C23_MergesExactlyWhenAllowed ==
    FirstMerge =>
        \E b \in Blockings :
            /\ Covers(call.args[1], ret.value, b)
            /\ \A i \in 1..Len(ret.value) :
                  /\ \A j \in (BlockStart(b, i) + 1)..b[i] :
                        Joins(call.args[1], BlockStart(b, i), j, call.args[2])
                  /\ b[i] > BlockStart(b, i) =>
                        Len(ret.value[i].text) <= call.args[2]
                  /\ i < Len(ret.value) =>
                        ~Joins(call.args[1], BlockStart(b, i), b[i] + 1, call.args[2])

\* three contiguous spans of one language under a limit of two: the first two
\* are merged, the third is kept apart
C23_Witness ==
    /\ FirstMerge
    /\ call.args[2] = 2
    /\ Len(call.args[1]) = 3
    /\ \A j \in 2..3 : /\ call.args[1][j].lang = call.args[1][j - 1].lang
                       /\ call.args[1][j].start = call.args[1][j - 1].end
    /\ Len(ret.value) = 2
    /\ ret.value[1].end - ret.value[1].start = 2

\* C24: each score of a merged span, times the total length of the spans it
\* was merged from, is the sum of their scores times their lengths: the
\* length-weighted average, not renormalised.
C24_LengthWeightedScores ==
    FirstMerge =>
        \A b \in Blockings :
            Covers(call.args[1], ret.value, b) =>
                \A i \in 1..Len(ret.value) : \A k \in LangSet :
                    BlockLength(call.args[1], BlockStart(b, i), b[i]) > 0 =>
                        RatScale(ret.value[i].scores[k],
                                 BlockLength(call.args[1], BlockStart(b, i), b[i]))
                          = WeightedSum(call.args[1], BlockStart(b, i), b[i], k)

\* a chain of four spans of different lengths merged into one, and two spans
\* whose scores stay short of one after the merge
C24_Witness ==
    /\ FirstMerge
    /\ \/ /\ call.args[1] = LONG_SPANS
          /\ Len(ret.value) = 1
          /\ ret.value[1].scores["zh"] = <<6, 7>>
          /\ ret.value[1].scores["ja"] = <<1, 7>>
       \/ /\ call.args[1] = PARTIAL_SPANS
          /\ Len(ret.value) = 1
          /\ ret.value[1].scores["zh"] = <<5, 16>>
          /\ ret.value[1].scores["ja"] = <<1, 4>>

AdhesionReturned == FnReturned("_smooth_ja_adhesion")

ShortZh(sp, max_zh_len) == sp.lang = "zh" /\ (sp.end - sp.start) <= max_zh_len

\* position i of spans is an interior short zh span between two ja spans
Sandwiched(spans, i, max_zh_len) ==
    /\ 1 < i /\ i < Len(spans)
    /\ ShortZh(spans[i], max_zh_len)
    /\ spans[i - 1].lang = "ja"
    /\ spans[i + 1].lang = "ja"

JaWithKana(sp) == sp.lang = "ja" /\ \E j \in 1..Len(sp.text) : sp.text[j] = "k"

\* a neighbour of position i is a ja span with Kana
KanaNeighbour(spans, i) ==
    \/ i > 1 /\ JaWithKana(spans[i - 1])
    \/ i < Len(spans) /\ JaWithKana(spans[i + 1])

\* C25: _smooth_ja_adhesion returns as many spans as it was given, in the same
\* order, with start, end and text untouched; a language changes only from zh
\* to ja; en spans, ja spans and zh spans longer than max_zh_len come back
\* as they were, scores included.
C25_OnlyLanguagesRewritten ==
    AdhesionReturned =>
        /\ Len(ret.value) = Len(call.args[1])
        /\ \A i \in 1..Len(call.args[1]) :
              /\ ret.value[i].start = call.args[1][i].start
              /\ ret.value[i].end = call.args[1][i].end
              /\ ret.value[i].text = call.args[1][i].text
              /\ ret.value[i].lang # call.args[1][i].lang =>
                    (call.args[1][i].lang = "zh" /\ ret.value[i].lang = "ja")
              /\ ~ShortZh(call.args[1][i], call.args[3]) =>
                    ret.value[i] = call.args[1][i]

\* a short zh span is relabelled next to a zh span of four characters that
\* the limit of three protects
C25_Witness ==
    /\ AdhesionReturned
    /\ call.args[3] = 3
    /\ \E i \in 1..Len(call.args[1]) : ret.value[i].lang # call.args[1][i].lang
    /\ \E i \in 1..Len(call.args[1]) :
          /\ call.args[1][i].lang = "zh"
          /\ call.args[1][i].end - call.args[1][i].start = 4
          /\ KanaNeighbour(call.args[1], i)
          /\ ret.value[i] = call.args[1][i]

\* C26: an interior zh span no longer than max_zh_len between two ja spans
\* comes back as ja, with or without Kana in the neighbours; with the Kana
\* pull switched off nothing else is relabelled, so never the first or the
\* last span.
C26_SandwichRule ==
    AdhesionReturned =>
        /\ \A i \in 1..Len(call.args[1]) :
              Sandwiched(call.args[1], i, call.args[3]) => ret.value[i].lang = "ja"
        /\ ~call.args[4] =>
              \A i \in 1..Len(call.args[1]) :
                  ret.value[i].lang # call.args[1][i].lang =>
                      Sandwiched(call.args[1], i, call.args[3])

\* a zh span between two ja spans without Kana is relabelled
C26_Witness ==
    /\ AdhesionReturned
    /\ Len(call.args[1]) = 3
    /\ Sandwiched(call.args[1], 2, call.args[3])
    /\ ~KanaNeighbour(call.args[1], 2)
    /\ ret.value[2].lang = "ja"

\* C27: with kana_pull a zh span no longer than max_zh_len comes back as ja
\* exactly when a neighbour is a ja span with Kana or the span is sandwiched;
\* without kana_pull only sandwiched spans are relabelled.
C27_KanaPullRule ==
    AdhesionReturned =>
        \A i \in 1..Len(call.args[1]) :
            ShortZh(call.args[1][i], call.args[3]) =>
                (ret.value[i].lang = "ja" <=>
                    \/ call.args[4] /\ KanaNeighbour(call.args[1], i)
                    \/ Sandwiched(call.args[1], i, call.args[3]))

\* under the limit of six, a first zh span of four characters is pulled by
\* the ja span with Kana after it
C27_Witness ==
    /\ AdhesionReturned
    /\ call.args[3] = MAX_ZH_LEN
    /\ call.args[4]
    /\ Len(call.args[1]) >= 2
    /\ call.args[1][1].lang = "zh"
    /\ call.args[1][1].end - call.args[1][1].start = 4
    /\ JaWithKana(call.args[1][2])
    /\ ret.value[1].lang = "ja"

\* the rows of items on the global time axis, for a segment of language lang
\* that starts at time at
RowsAt(items, at, lang) ==
    [i \in 1..Len(items) |->
        [char |-> items[i].char, start |-> at + items[i].start,
         end |-> at + items[i].end, lang |-> lang]]

\* C28: a step that completes segment idx+1 appends to the merged rows exactly
\* the rows the aligner returned for it, shifted by the offset as it was
\* before the step and tagged with the segment's langcode; every step leaves
\* the rows already there in place; a synthesis starts only when all earlier
\* segments have been synthesised and aligned.
C28_RowsAppendOnlyInSegmentOrder ==
    [][ /\ idx' \in {idx, idx + 1}
        /\ idx' = idx + 1 =>
              /\ flat_rows' = flat_rows \o
                    RowsAt(char_items', offset, seg_out[idx + 1].langcode)
              /\ offset' >= offset
        /\ idx' = idx => flat_rows' = flat_rows
        /\ tts_calls' # tts_calls =>
              (tts_calls = idx /\ align_calls = idx /\ tts_calls' = idx + 1)
      ]_vars

\* the second segment has been processed: its row stands after the first
\* segment's, later than the aligner placed it and under another language
C28_Witness ==
    /\ pc = "loop"
    /\ idx = 2
    /\ Len(flat_rows) = 2
    /\ Len(char_items) = 1
    /\ flat_rows[1].lang # flat_rows[2].lang
    /\ flat_rows[2].lang = seg_out[2].langcode
    /\ flat_rows[2].start > char_items[1].start

\* the rows of a segment as the aligner wrote them
RowsOf(seg) ==
    IF \E k \in {"char-segments", "char_segments", "chars", "characters"} :
            k \in DOMAIN seg
    THEN seg[CHOOSE k \in DOMAIN seg : TRUE]
    ELSE <<>>

CarriesAll(r) == {"char", "start", "end"} \subseteq DOMAIN r

\* C30: every row of the alignment result that carries a char, a start and
\* an end is in what _extract_char_items returns, with the same char, start
\* and end, a start or an end of 0 included.
C30_TimedRowsAreKept ==
    FnReturned("_extract_char_items") =>
        \A i \in 1..Len(call.args[1]) :
            \A j \in 1..Len(RowsOf(call.args[1][i])) :
                CarriesAll(RowsOf(call.args[1][i])[j]) =>
                    \E m \in 1..Len(ret.value) :
                        /\ ret.value[m].char = RowsOf(call.args[1][i])[j].char
                        /\ ret.value[m].start = RowsOf(call.args[1][i])[j].start
                        /\ ret.value[m].end = RowsOf(call.args[1][i])[j].end

\* every such row whose start and end are after time 0 is kept
C30_RowsAfterZeroAreKept ==
    FnReturned("_extract_char_items") =>
        \A i \in 1..Len(call.args[1]) :
            \A j \in 1..Len(RowsOf(call.args[1][i])) :
                (/\ CarriesAll(RowsOf(call.args[1][i])[j])
                 /\ RowsOf(call.args[1][i])[j].start[1] > 0
                 /\ RowsOf(call.args[1][i])[j].end[1] > 0) =>
                    \E m \in 1..Len(ret.value) :
                        ret.value[m] = [char |-> RowsOf(call.args[1][i])[j].char,
                                        start |-> RowsOf(call.args[1][i])[j].start,
                                        end |-> RowsOf(call.args[1][i])[j].end]

====
